---- MODULE Spec2Model ----
(***************************************************************************)
(* IrisGridCopyHandler: the copy-to-clipboard state machine of the iris    *)
(* grid.  One handler instance, its React state, its three instance fields *)
(* (textData, hideTimer, fetchPromise) and the asynchronous work it has    *)
(* outstanding: cancelable fetches awaiting their continuation, clipboard  *)
(* writes awaiting their outcome, and scheduled hide timers.               *)
(***************************************************************************)
EXTENDS Integers, FiniteSets, TLC

VARIABLES
    lifecycle,      \* "constructed" | "mounted" | "unmounted"
    copyOperation,  \* props.copyOperation
    cycle,          \* identity (reference) of the operation in props
    error,          \* state.error
    copyState,      \* state.copyState
    buttonState,    \* state.buttonState
    isShown,        \* state.isShown
    rowCount,       \* state.rowCount
    textData,       \* this.textData
    hideTimer,      \* this.hideTimer
    fetchPromise,   \* this.fetchPromise
    fetches,        \* cancelable promises whose awaiting continuation has not run
    writes,         \* copyToClipboard calls whose outcome is not yet known
    timers,         \* timers scheduled with setTimeout, neither cleared nor fired
    keyHandler,     \* a KeyHandler: whether constructed, the argument, its order
    keyDown         \* the last onDown call on it: event, grid and result

vars == <<lifecycle, copyOperation, cycle, error, copyState, buttonState,
          isShown, rowCount, textData, hideTimer, fetchPromise, fetches,
          writes, timers, keyHandler, keyDown>>

----------------------------------------------------------------------------
(* Bounds of the model *)

MaxCycles == 2      \* operations supplied to one handler (mount included)
MaxFetches == 2     \* fetch continuations outstanding at once
MaxWrites == 2      \* clipboard writes outstanding at once
RowSpread == 1      \* row counts range over the threshold -/+ RowSpread
MaxOrder == 10      \* explicit KeyHandler orders range over 0..MaxOrder

----------------------------------------------------------------------------
(* Program constants *)

NO_PROMPT_THRESHOLD == 10000

IDLE == "IDLE"
CONFIRMATION_REQUIRED == "CONFIRMATION_REQUIRED"
FETCH_RANGES_IN_PROGRESS == "FETCH_RANGES_IN_PROGRESS"
FETCH_HEADER_IN_PROGRESS == "FETCH_HEADER_IN_PROGRESS"
FETCH_ERROR == "FETCH_ERROR"
CLICK_REQUIRED == "CLICK_REQUIRED"
DONE == "DONE"

COPY_STATES == {IDLE, CONFIRMATION_REQUIRED, FETCH_RANGES_IN_PROGRESS,
                FETCH_HEADER_IN_PROGRESS, FETCH_ERROR, CLICK_REQUIRED, DONE}

COPY == "COPY"
FETCH_IN_PROGRESS == "FETCH_IN_PROGRESS"
CLICK_TO_COPY == "CLICK_TO_COPY"
RETRY == "RETRY"

BUTTON_STATES == {COPY, FETCH_IN_PROGRESS, CLICK_TO_COPY, RETRY}

\* undefined / null for strings, and for handles and texts (numbered from 1)
Undefined == "undefined"
None == 0

InvalidHeaderError == "Invalid column header selected."
PermissionsError == "Unable to copy. Verify your browser permissions."
PresetError == "preset error"

----------------------------------------------------------------------------
(* Copy operations.  ranges is abstracted to the row count of the ranges   *)
(* (-1: the field is absent), columnIndex is -1 when absent.               *)

Absent == 0 - 1

RowCounts == (NO_PROMPT_THRESHOLD - RowSpread)..(NO_PROMPT_THRESHOLD + RowSpread)

\* Column 1 has a header text in the model, column 0 has none.
ColumnIndexes == {0, 1}

NullOperation ==
    [present |-> FALSE, ranges |-> Absent, columnIndex |-> Absent,
     error |-> Undefined]

CopyRangesOperations ==
    [present : {TRUE}, ranges : RowCounts, columnIndex : {Absent},
     error : {Undefined, PresetError}]

CopyHeaderOperations ==
    [present : {TRUE}, ranges : {Absent}, columnIndex : ColumnIndexes,
     error : {Undefined, PresetError}]

CopyOperations == CopyRangesOperations \cup CopyHeaderOperations

isCopyRangesOperation(op) == op.ranges # Absent

\* Mutant: a truthiness test, which takes column 0 for an absent field.
isCopyHeaderOperationTruthy(op) == op.columnIndex # Absent /\ op.columnIndex # 0

isCopyHeaderOperation(op) == op.columnIndex # Absent

\* model.textForColumnHeader: TRUE when the model has a text for the header
textForColumnHeader(columnIndex) == columnIndex = 1

----------------------------------------------------------------------------
(* The handler as one record, so that the methods compose as functions.    *)

Self ==
    [lifecycle |-> lifecycle, copyOperation |-> copyOperation, cycle |-> cycle,
     error |-> error, copyState |-> copyState, buttonState |-> buttonState,
     isShown |-> isShown, rowCount |-> rowCount, textData |-> textData,
     hideTimer |-> hideTimer, fetchPromise |-> fetchPromise,
     fetches |-> fetches, writes |-> writes, timers |-> timers]

Becomes(s) ==
    /\ lifecycle' = s.lifecycle
    /\ copyOperation' = s.copyOperation
    /\ cycle' = s.cycle
    /\ error' = s.error
    /\ copyState' = s.copyState
    /\ buttonState' = s.buttonState
    /\ isShown' = s.isShown
    /\ rowCount' = s.rowCount
    /\ textData' = s.textData
    /\ hideTimer' = s.hideTimer
    /\ fetchPromise' = s.fetchPromise
    /\ fetches' = s.fetches
    /\ writes' = s.writes
    /\ timers' = s.timers
    /\ UNCHANGED <<keyHandler, keyDown>>

\* this.setState(update): merges update into the state of a mounted
\* component; React drops the update of a component that is unmounted.
setState(s, update) ==
    IF s.lifecycle = "mounted"
    THEN [f \in DOMAIN s |-> IF f \in DOMAIN update THEN update[f] ELSE s[f]]
    ELSE s

\* a fresh handle: the least number not in use
FreeId(used) ==
    CHOOSE i \in 1..(Cardinality(used) + 1) :
        i \notin used /\ \A j \in 1..(i - 1) : j \in used

FetchIds(s) == {f.id : f \in s.fetches}
WriteIds(s) == {w.id : w \in s.writes}

----------------------------------------------------------------------------
(* Methods of the handler, each a function from the handler before the     *)
(* call to the handler after it (up to the method's first await).          *)

\* CancelablePromise.cancel(): the pending promise settles with the
\* distinguished canceled outcome; the continuation awaiting it runs later.
cancel(pending, id) ==
    {IF f.id = id THEN [f EXCEPT !.status = "canceled"] ELSE f : f \in pending}

stopFetch(s) ==
    IF s.fetchPromise # None
    THEN [s EXCEPT !.fetches = cancel(@, s.fetchPromise),
                   !.fetchPromise = None]
    ELSE s

stopHideTimer(s) ==
    IF s.hideTimer # None
    THEN [s EXCEPT !.timers = @ \ {s.hideTimer}, !.hideTimer = None]
    ELSE s

\* Mutant: schedules the new timer without clearing the pending one.
startHideTimerKeepsPending(s) ==
    LET t == FreeId(s.timers)
    IN [s EXCEPT !.timers = @ \cup {t}, !.hideTimer = t]

startHideTimer(s) ==
    LET s1 == stopHideTimer(s)
        t == FreeId(s1.timers)
    IN [s1 EXCEPT !.timers = @ \cup {t}, !.hideTimer = t]

\* Mutant: keeps the text cached for the previous operation.
stopCopyKeepsText(s) ==
    stopHideTimer(stopFetch(s))

\* Mutant: leaves the hide timer of the previous operation pending.
stopCopyKeepsTimer(s) ==
    stopFetch([s EXCEPT !.textData = None])

\* Mutant: leaves the fetch of the previous operation running.
stopCopyKeepsFetch(s) ==
    stopHideTimer([s EXCEPT !.textData = None])

stopCopy(s) ==
    stopHideTimer(stopFetch([s EXCEPT !.textData = None]))

showCopyDone(s) ==
    startHideTimer(setState(s, [copyState |-> DONE]))

\* copyText up to its await: caches the text and calls copyToClipboard.
\* origin records which caller awaits the outcome ("fetch" or "click").
copyText(s, text, origin) ==
    [s EXCEPT !.textData = text,
              !.writes = @ \cup {[id |-> FreeId(WriteIds(s)),
                                  text |-> text, cycle |-> s.cycle,
                                  origin |-> origin]}]

\* PromiseUtils.makeCancelable(...) assigned to this.fetchPromise
makeCancelable(s, kind) ==
    LET id == FreeId(FetchIds(s))
    IN [s EXCEPT !.fetchPromise = id,
                 !.fetches = @ \cup {[id |-> id, cycle |-> s.cycle,
                                      kind |-> kind, status |-> "pending"]}]

\* startFetch up to `await this.fetchPromise`.  With a null operation the
\* type guard dereferences null and throws after stopFetch.
startFetch(s) ==
    LET s1 == stopFetch(s)
        op == s1.copyOperation
    IN IF ~op.present THEN s1
       ELSE IF isCopyHeaderOperation(op)
       THEN LET s2 == setState(s1, [buttonState |-> FETCH_IN_PROGRESS,
                                    copyState |-> FETCH_HEADER_IN_PROGRESS])
            IN IF ~textForColumnHeader(op.columnIndex)
               THEN setState([s2 EXCEPT !.fetchPromise = None],
                             [error |-> InvalidHeaderError, copyState |-> DONE])
               ELSE makeCancelable(s2, "header")
       ELSE makeCancelable(
                setState(s1, [buttonState |-> FETCH_IN_PROGRESS,
                              copyState |-> FETCH_RANGES_IN_PROGRESS]),
                "ranges")

\* Mutants of the threshold test: off by one upwards, and inclusive.
needsConfirmationAboveNext(count) == count > NO_PROMPT_THRESHOLD + 1
needsConfirmationInclusive(count) == count >= NO_PROMPT_THRESHOLD

needsConfirmation(count) == count > NO_PROMPT_THRESHOLD

startCopy(s) ==
    LET s1 == stopCopy(s)
        op == s1.copyOperation
    IN IF ~op.present THEN setState(s1, [isShown |-> FALSE])
       ELSE IF op.error # Undefined
       THEN startHideTimer(setState(s1, [isShown |-> TRUE, copyState |-> DONE,
                                         error |-> op.error]))
       ELSE LET s2 == setState(s1, [isShown |-> TRUE, error |-> Undefined])
            IN IF isCopyRangesOperation(op)
               THEN LET s3 == setState(s2, [rowCount |-> op.ranges])
                    IN IF needsConfirmation(op.ranges)
                       THEN setState(s3, [buttonState |-> COPY,
                                          copyState |-> CONFIRMATION_REQUIRED])
                       ELSE startFetch(s3)
               ELSE startFetch(s2)

\* Mutant: dismisses the UI in every copyState.
handleBackgroundClickAlways(s) == setState(s, [isShown |-> FALSE])

handleBackgroundClick(s) ==
    IF s.copyState = DONE THEN setState(s, [isShown |-> FALSE]) ELSE s

\* Mutant: hides the UI but leaves the fetch running.
handleCancelClickKeepsFetch(s) == setState(s, [isShown |-> FALSE])

handleCancelClick(s) ==
    setState(stopFetch(s), [isShown |-> FALSE])

\* Mutant: fetches again although the text is cached.
handleCopyClickRefetches(s) == startFetch(s)

\* handleCopyClick up to its await
handleCopyClick(s) ==
    IF s.textData # None
    THEN copyText(s, s.textData, "click")
    ELSE startFetch(s)

handleHideTimeout(s) ==
    setState(stopHideTimer(s), [isShown |-> FALSE])

\* startFetch after `await this.fetchPromise` resolved with the text
fetchFulfilled(s, text) ==
    copyText([s EXCEPT !.fetchPromise = None], text, "fetch")

\* Mutant: the catch clause does not tell cancellation from failure.
fetchFailedCancelIsError(s, canceled) ==
    setState([s EXCEPT !.fetchPromise = None],
             [buttonState |-> RETRY, copyState |-> FETCH_ERROR])

\* Mutant: the catch clause swallows every rejection.
fetchFailedSilently(s, canceled) == s

\* the catch clause of startFetch around the awaited fetch
fetchFailed(s, canceled) ==
    IF canceled THEN s
    ELSE setState([s EXCEPT !.fetchPromise = None],
                  [buttonState |-> RETRY, copyState |-> FETCH_ERROR])

\* after `await this.copyText(...)` resolved, in startFetch and handleCopyClick
copyFulfilled(s) == showCopyDone(s)

\* Mutant: the failure after a fetch sets copyState without buttonState.
copyFailedAfterFetchKeepsButton(s) ==
    setState(s, [copyState |-> CLICK_REQUIRED])

\* the catch clause around copyText in startFetch
copyFailedAfterFetch(s) ==
    setState(s, [buttonState |-> CLICK_TO_COPY, copyState |-> CLICK_REQUIRED])

\* Mutant: the manual failure handled like the failure after a fetch.
copyFailedAfterClickAsAfterFetch(s) ==
    setState(s, [buttonState |-> CLICK_TO_COPY, copyState |-> CLICK_REQUIRED])

\* the catch clause around copyText in handleCopyClick
copyFailedAfterClick(s) ==
    setState(s, [error |-> PermissionsError])

----------------------------------------------------------------------------
(* What render shows.  A message is its wording and the row count put in   *)
(* it (Absent when it has none); toLocaleString renders distinct counts    *)
(* as distinct texts, so the count stands for its rendering.               *)

Message(text, rows) == [text |-> text, rows |-> rows]

getStatusMessageText(state, rows) ==
    CASE state = CONFIRMATION_REQUIRED ->
            Message("Are you sure you want to copy N rows to your clipboard?", rows)
      [] state = CLICK_REQUIRED -> Message("Fetched N rows!", rows)
      [] state = FETCH_ERROR -> Message("Unable to copy data.", Absent)
      [] state = FETCH_RANGES_IN_PROGRESS ->
            Message("Fetching N rows for clipboard...", rows)
      [] state = FETCH_HEADER_IN_PROGRESS ->
            Message("Fetching header for clipboard...", Absent)
      [] state = DONE -> Message("Copied to Clipboard!", Absent)
      [] OTHER -> Message("", Absent)

\* render: statusMessageText = error ?? getStatusMessageText(copyState, rowCount)
statusMessageText ==
    IF error # Undefined THEN Message(error, Absent)
    ELSE getStatusMessageText(copyState, rowCount)

----------------------------------------------------------------------------
(* KeyHandler: the base key handler of the grid.                           *)

DefaultOrder == 5000

\* the argument of the constructor: Absent when it is called without one
Orders == (0..MaxOrder) \cup {DefaultOrder}

Keys == {"ArrowDown", "Enter", "Escape", "a"}

Grids == {1, 2}

NoKeyHandler == [constructed |-> FALSE, argument |-> Absent, order |-> Absent]

NoKeyDown == [key |-> "none", grid |-> 0, result |-> FALSE]

\* Mutant: `order || 5000`, which replaces an explicit order of 0.
KeyHandlerConstructorFalsy(order) ==
    [constructed |-> TRUE, argument |-> order,
     order |-> IF order = Absent \/ order = 0 THEN DefaultOrder ELSE order]

\* constructor(order = 5000): the default applies when no argument is given
KeyHandlerConstructor(order) ==
    [constructed |-> TRUE, argument |-> order,
     order |-> IF order = Absent THEN DefaultOrder ELSE order]

\* onDown(event, grid): the result, true when the event is consumed
onDown(event, grid) == FALSE

----------------------------------------------------------------------------
(* Initial state: the constructed component, before it is mounted, and no  *)
(* KeyHandler yet.                                                         *)

Init ==
    /\ lifecycle = "constructed"
    /\ copyOperation = NullOperation
    /\ cycle = 0
    /\ error = Undefined
    /\ copyState = IDLE
    /\ buttonState = COPY
    /\ isShown = FALSE
    /\ rowCount = 0
    /\ textData = None
    /\ hideTimer = None
    /\ fetchPromise = None
    /\ fetches = {}
    /\ writes = {}
    /\ timers = {}
    /\ keyHandler = NoKeyHandler
    /\ keyDown = NoKeyDown

\* The model can allocate the handles a step may need.
HasFreeFetch == Cardinality(fetches) < MaxFetches
HasFreeWrite == Cardinality(writes) < MaxWrites

----------------------------------------------------------------------------
(* Actions *)

\* The host mounts the component with an operation or with none.
ComponentDidMount ==
    /\ lifecycle = "constructed"
    /\ HasFreeFetch
    /\ \E op \in CopyOperations \cup {NullOperation} :
          LET s == [Self EXCEPT !.lifecycle = "mounted", !.copyOperation = op,
                                !.cycle = IF op.present THEN 1 ELSE 0]
          IN Becomes(IF op.present THEN startCopy(s) ELSE s)

\* The host supplies another operation (a new reference) or null.
ComponentDidUpdate ==
    /\ lifecycle = "mounted"
    /\ cycle < MaxCycles
    /\ HasFreeFetch
    /\ \E op \in CopyOperations \cup {NullOperation} :
          /\ op.present \/ copyOperation.present
          /\ Becomes(startCopy([Self EXCEPT !.copyOperation = op,
                                            !.cycle = @ + 1]))

ComponentWillUnmount ==
    /\ lifecycle = "mounted"
    /\ Becomes(stopCopy([Self EXCEPT !.lifecycle = "unmounted"]))

BackgroundClick ==
    /\ lifecycle = "mounted"
    /\ Becomes(handleBackgroundClick(Self))

CancelClick ==
    /\ lifecycle = "mounted"
    /\ Becomes(handleCancelClick(Self))

\* The copy button is disabled while buttonState is FETCH_IN_PROGRESS.
CopyClick ==
    /\ lifecycle = "mounted"
    /\ buttonState # FETCH_IN_PROGRESS
    /\ IF textData # None THEN HasFreeWrite ELSE HasFreeFetch
    /\ Becomes(handleCopyClick(Self))

\* The awaited fetch resolves: an uncanceled fetch delivers its text.
FetchResolvedOf(f) ==
    /\ f.status = "pending"
    /\ HasFreeWrite
    /\ Becomes(fetchFulfilled([Self EXCEPT !.fetches = @ \ {f}], f.cycle))

FetchResolved == \E f \in fetches : FetchResolvedOf(f)

\* The awaited fetch rejects with an error other than cancellation; only
\* model.textSnapshot can reject, the header text is already a string.
FetchRejectedOf(f) ==
    /\ f.status = "pending"
    /\ f.kind = "ranges"
    /\ Becomes(fetchFailed([Self EXCEPT !.fetches = @ \ {f}], FALSE))

FetchRejected == \E f \in fetches : FetchRejectedOf(f)

\* The continuation of a canceled fetch runs with CanceledPromiseError.
FetchCanceledOf(f) ==
    /\ f.status = "canceled"
    /\ Becomes(fetchFailed([Self EXCEPT !.fetches = @ \ {f}], TRUE))

FetchCanceled == \E f \in fetches : FetchCanceledOf(f)

\* copyToClipboard resolves: the caller that awaited it goes on.
ClipboardResolvedOf(w) ==
    Becomes(copyFulfilled([Self EXCEPT !.writes = @ \ {w}]))

ClipboardResolved == \E w \in writes : ClipboardResolvedOf(w)

\* copyToClipboard rejects: the catch clause of the caller runs.
ClipboardRejectedOf(w) ==
    LET s == [Self EXCEPT !.writes = @ \ {w}]
    IN Becomes(IF w.origin = "fetch" THEN copyFailedAfterFetch(s)
               ELSE copyFailedAfterClick(s))

ClipboardRejected == \E w \in writes : ClipboardRejectedOf(w)

\* A scheduled timer fires and calls handleHideTimeout.
HideTimeout ==
    \E t \in timers :
        Becomes(handleHideTimeout([Self EXCEPT !.timers = @ \ {t}]))

Next ==
    \/ ComponentDidMount
    \/ ComponentDidUpdate
    \/ ComponentWillUnmount
    \/ BackgroundClick
    \/ CancelClick
    \/ CopyClick
    \/ FetchResolved
    \/ FetchRejected
    \/ FetchCanceled
    \/ ClipboardResolved
    \/ ClipboardRejected
    \/ HideTimeout

Spec == Init /\ [][Next]_vars

----------------------------------------------------------------------------
(* The KeyHandler on its own: construction, then key-down events.          *)

copyHandlerVars ==
    <<lifecycle, copyOperation, cycle, error, copyState, buttonState, isShown,
      rowCount, textData, hideTimer, fetchPromise, fetches, writes, timers>>

NewKeyHandler ==
    /\ ~keyHandler.constructed
    /\ \E order \in Orders \cup {Absent} :
          keyHandler' = KeyHandlerConstructor(order)
    /\ UNCHANGED <<keyDown, copyHandlerVars>>

\* onDown has no assignment: the handler is left as it is.
KeyDown ==
    /\ keyHandler.constructed
    /\ \E event \in Keys, grid \in Grids :
          keyDown' = [key |-> event, grid |-> grid, result |-> onDown(event, grid)]
    /\ UNCHANGED <<keyHandler, copyHandlerVars>>

KeyNext == NewKeyHandler \/ KeyDown

KeySpec == Init /\ [][KeyNext]_vars

----------------------------------------------------------------------------
(* Vocabulary of the properties *)

PendingFetches(fs) == {f \in fs : f.status = "pending"}

\* the step issues a fetch: a pending fetch that was not there before
IssuedFetch == \E f \in fetches' : f.status = "pending" /\ f \notin fetches

\* the step runs startCopy: the operation in props changed
StartCopyStep == cycle' # cycle

NoPresetError(op) == op.present /\ op.error = Undefined

LargeRanges(op) ==
    NoPresetError(op) /\ isCopyRangesOperation(op) /\ op.ranges > NO_PROMPT_THRESHOLD

SmallRanges(op) ==
    NoPresetError(op) /\ isCopyRangesOperation(op) /\ op.ranges <= NO_PROMPT_THRESHOLD

----------------------------------------------------------------------------
\* C1: for a Ranges operation without preset error and with more than 10,000
\* rows, startCopy ends in CONFIRMATION_REQUIRED with button COPY, the UI
\* shown and no fetch in flight, and while that operation is supplied the
\* only step that issues a fetch is a copy click (never a cancel click, a
\* background click, a completion or a timer).
C1_ConfirmationBeforeFetch ==
    [][ /\ (StartCopyStep /\ LargeRanges(copyOperation'))
            => /\ copyState' = CONFIRMATION_REQUIRED
               /\ buttonState' = COPY
               /\ isShown'
               /\ fetchPromise' = None
               /\ PendingFetches(fetches') = {}
        /\ (LargeRanges(copyOperation') /\ IssuedFetch) => CopyClick
      ]_vars

\* C1 witness: a large operation superseded a fetching one and waits for
\* confirmation; the earlier fetch is canceled and none was issued.
C1_Witness ==
    /\ LargeRanges(copyOperation)
    /\ copyState = CONFIRMATION_REQUIRED
    /\ buttonState = COPY
    /\ isShown
    /\ fetchPromise = None
    /\ \E f \in fetches : f.status = "canceled"

\* C2: for a Ranges operation without preset error and with at most 10,000
\* rows (10,000 included), startCopy ends in FETCH_RANGES_IN_PROGRESS with
\* button FETCH_IN_PROGRESS and exactly one fetch in flight, the one held by
\* fetchPromise, and copyState is never CONFIRMATION_REQUIRED while such an
\* operation is supplied.
C2_SmallRangesFetchDirectly ==
    [][ /\ (StartCopyStep /\ SmallRanges(copyOperation'))
            => /\ copyState' = FETCH_RANGES_IN_PROGRESS
               /\ buttonState' = FETCH_IN_PROGRESS
               /\ isShown'
               /\ IssuedFetch
               /\ \E f \in fetches' :
                     /\ PendingFetches(fetches') = {f}
                     /\ f.id = fetchPromise'
                     /\ f.cycle = cycle'
                     /\ f.kind = "ranges"
        /\ SmallRanges(copyOperation') => copyState' # CONFIRMATION_REQUIRED
      ]_vars

\* C2 witness: an operation of exactly 10,000 rows is fetching.
C2_Witness ==
    /\ SmallRanges(copyOperation)
    /\ copyOperation.ranges = NO_PROMPT_THRESHOLD
    /\ copyState = FETCH_RANGES_IN_PROGRESS
    /\ buttonState = FETCH_IN_PROGRESS
    /\ \E f \in fetches : f.status = "pending" /\ f.id = fetchPromise

\* the step cancels an in-flight fetch
CancelsFetch ==
    \E f \in fetches :
        f.status = "pending" /\ [f EXCEPT !.status = "canceled"] \in fetches'

\* a Header operation whose column has no header text in the model
InvalidHeader(op) ==
    /\ NoPresetError(op)
    /\ op.columnIndex \in ColumnIndexes
    /\ ~textForColumnHeader(op.columnIndex)

\* C3: a step that cancels an in-flight fetch (cancel click, superseding
\* operation, teardown) leaves copyState other than FETCH_ERROR and
\* buttonState other than RETRY, and changes the error message only when it
\* is startCopy installing the new operation's own message; the continuation
\* that receives the canceled outcome changes nothing of the handler.
C3_CancelIsSilent ==
    [][ /\ CancelsFetch
            => /\ copyState' # FETCH_ERROR
               /\ buttonState' # RETRY
               /\ error' # error
                    => /\ StartCopyStep
                       /\ \/ error' = copyOperation'.error
                          \/ error' = InvalidHeaderError /\ InvalidHeader(copyOperation')
        /\ \A f \in fetches :
              FetchCanceledOf(f)
                => UNCHANGED <<lifecycle, copyOperation, cycle, error, copyState,
                               buttonState, isShown, rowCount, textData,
                               hideTimer, fetchPromise, writes, timers>>
      ]_vars

\* C3 witness: a cancel click canceled the fetch of a shown operation; the
\* canceled outcome is still to be delivered and no error is shown.
C3_Witness ==
    /\ lifecycle = "mounted"
    /\ copyState = FETCH_RANGES_IN_PROGRESS
    /\ ~isShown
    /\ copyOperation.present
    /\ error = Undefined
    /\ fetchPromise = None
    /\ \E f \in fetches : f.status = "canceled" /\ f.cycle = cycle

\* C4: every step that enters DONE leaves a hide timer scheduled, and the
\* timer's firing hides the UI and leaves no timer behind.
C4_DoneStartsHideTimer ==
    [][ /\ (copyState' = DONE /\ (copyState # DONE \/ (StartCopyStep /\ copyOperation'.present)))
            => hideTimer' # None /\ timers' = {hideTimer'}
        /\ (HideTimeout /\ lifecycle = "mounted")
            => ~isShown' /\ timers' = {} /\ hideTimer' = None
      ]_vars

\* C5: at most one uncanceled fetch and at most one hide timer are alive,
\* and they are the ones the handler holds in fetchPromise and hideTimer.
C5_OneFetchOneTimer ==
    /\ Cardinality(PendingFetches(fetches)) <= 1
    /\ Cardinality(timers) <= 1
    /\ \A f \in PendingFetches(fetches) : f.id = fetchPromise
    /\ \A t \in timers : t = hideTimer

\* C5 witness: a new fetch replaced an earlier one (canceled, its
\* continuation still outstanding) and is the one fetchPromise holds.
C5_Witness ==
    /\ \E f, g \in fetches : f.status = "canceled" /\ g.status = "pending"
    /\ fetchPromise # None

\* C6: when the clipboard write that follows a fetch fails while the
\* operation of that fetch is still the one supplied, copyState becomes
\* CLICK_REQUIRED and buttonState CLICK_TO_COPY with the fetched text cached;
\* the cache lasts as long as the operation, and every copy click with text
\* cached starts a clipboard write of that text and issues no fetch.
C6_ClickRequiredReusesText ==
    [][ /\ \A w \in writes :
              (/\ w.origin = "fetch"
               /\ w.cycle = cycle
               /\ lifecycle = "mounted"
               /\ ClipboardRejectedOf(w))
                => /\ copyState' = CLICK_REQUIRED
                   /\ buttonState' = CLICK_TO_COPY
                   /\ textData' = w.text
                   /\ textData' # None
        /\ (textData # None /\ cycle' = cycle /\ lifecycle' = "mounted")
            => textData' = textData
        /\ (textData # None /\ CopyClick)
            => /\ ~IssuedFetch
               /\ fetches' = fetches
               /\ fetchPromise' = fetchPromise
               /\ \E w \in writes' \ writes :
                     /\ writes' = writes \cup {w}
                     /\ w.text = textData
                     /\ w.origin = "click"
      ]_vars

\* C6 witness: after the automatic write failed, a click has started a
\* write of the cached text and no fetch is outstanding.
C6_Witness ==
    /\ lifecycle = "mounted"
    /\ copyState = CLICK_REQUIRED
    /\ buttonState = CLICK_TO_COPY
    /\ textData = cycle
    /\ fetches = {}
    /\ \E w \in writes : w.origin = "click" /\ w.text = textData /\ w.cycle = cycle

\* C7: when a clipboard write started by a copy click fails, copyState and
\* buttonState are unchanged, the error becomes the permissions message, no
\* fetch is touched and the cached text is unchanged: still the clicked text
\* when the operation has not changed since the click.
C7_ManualFailureKeepsState ==
    [][ \A w \in writes :
           (w.origin = "click" /\ lifecycle = "mounted" /\ ClipboardRejectedOf(w))
             => /\ copyState' = copyState
                /\ buttonState' = buttonState
                /\ error' = PermissionsError
                /\ textData' = textData
                /\ w.cycle = cycle => textData' = w.text /\ textData' # None
                /\ UNCHANGED <<fetches, fetchPromise, timers, hideTimer, isShown>>
      ]_vars

\* C7 witness: a manual write failed in CLICK_REQUIRED; the state is kept,
\* the permissions message shows and the text is still cached.
C7_Witness ==
    /\ lifecycle = "mounted"
    /\ copyState = CLICK_REQUIRED
    /\ buttonState = CLICK_TO_COPY
    /\ error = PermissionsError
    /\ textData = cycle
    /\ writes = {}

\* C8: for a Header operation without preset error whose header text is
\* undefined, every run of startFetch (from startCopy or from a copy click)
\* ends in DONE with the invalid-header message and no fetch in flight, and
\* while that operation is supplied no fetch and no clipboard write of it
\* exists and no text is cached.
C8_InvalidHeaderIsDone ==
    [][ /\ (/\ InvalidHeader(copyOperation')
            /\ lifecycle' = "mounted"
            /\ StartCopyStep \/ (CopyClick /\ textData = None))
            => /\ copyState' = DONE
               /\ error' = InvalidHeaderError
               /\ fetchPromise' = None
               /\ PendingFetches(fetches') = {}
               /\ ~IssuedFetch
               /\ writes' \subseteq writes
        /\ InvalidHeader(copyOperation')
            => /\ textData' = None
               /\ \A w \in writes' : w.cycle # cycle'
               /\ \A f \in fetches' : f.cycle # cycle'
      ]_vars

\* C8 witness: the invalid header operation is shown as DONE with its
\* message after it superseded an operation whose write is still in flight.
C8_Witness ==
    /\ lifecycle = "mounted"
    /\ InvalidHeader(copyOperation)
    /\ copyState = DONE
    /\ error = InvalidHeaderError
    /\ isShown
    /\ fetchPromise = None
    /\ textData = None
    /\ writes # {}

\* C9: when the awaited fetch rejects with an error other than cancellation,
\* copyState becomes FETCH_ERROR and buttonState RETRY, no fetch is left in
\* flight and no clipboard write is started or text cached; a copy click in
\* FETCH_ERROR with an operation supplied issues exactly one new fetch and
\* returns to the fetch-in-progress state.
C9_FetchErrorAndRetry ==
    [][ /\ \A f \in fetches :
              FetchRejectedOf(f)
                => /\ copyState' = FETCH_ERROR
                   /\ buttonState' = RETRY
                   /\ fetchPromise' = None
                   /\ PendingFetches(fetches') = {}
                   /\ writes' = writes
                   /\ textData' = None
        /\ (copyState = FETCH_ERROR /\ copyOperation.present /\ CopyClick)
            => /\ IssuedFetch
               /\ Cardinality(PendingFetches(fetches')) = 1
               /\ \A f \in PendingFetches(fetches') : f.id = fetchPromise'
               /\ copyState' \in {FETCH_RANGES_IN_PROGRESS, FETCH_HEADER_IN_PROGRESS}
               /\ buttonState' = FETCH_IN_PROGRESS
               /\ writes' = writes
      ]_vars

\* C9 witness: the fetch of a shown operation failed: FETCH_ERROR with
\* RETRY, nothing in flight, nothing cached, and the copy button enabled.
C9_Witness ==
    /\ lifecycle = "mounted"
    /\ copyOperation.present
    /\ copyState = FETCH_ERROR
    /\ buttonState = RETRY
    /\ isShown
    /\ fetchPromise = None
    /\ fetches = {}
    /\ writes = {}
    /\ textData = None
    /\ ENABLED CopyClick

\* C10: for every operation with a preset error, whatever its variant and
\* row count, startCopy shows the UI in DONE with the supplied error text and
\* exactly one hide timer scheduled, cancels what was in flight, and starts
\* neither a fetch nor a clipboard write.
C10_PresetErrorIsDone ==
    [][ (StartCopyStep /\ copyOperation'.present /\ copyOperation'.error # Undefined)
          => /\ isShown'
             /\ copyState' = DONE
             /\ error' = copyOperation'.error
             /\ hideTimer' # None
             /\ timers' = {hideTimer'}
             /\ fetchPromise' = None
             /\ PendingFetches(fetches') = {}
             /\ ~IssuedFetch
             /\ writes' = writes
             /\ textData' = None
      ]_vars

\* C10 witness: a large Ranges operation with a preset error superseded a
\* fetching operation: DONE with the error text, timer pending, fetch canceled.
C10_Witness ==
    /\ lifecycle = "mounted"
    /\ copyOperation.present
    /\ copyOperation.error = PresetError
    /\ isCopyRangesOperation(copyOperation)
    /\ copyOperation.ranges > NO_PROMPT_THRESHOLD
    /\ copyState = DONE
    /\ error = PresetError
    /\ isShown
    /\ hideTimer # None
    /\ \E f \in fetches : f.status = "canceled"

\* C11: once the handler is torn down, no fetch is in flight, no hide timer
\* is pending or scheduled and no text is cached, in every later state.
C11_TeardownIsFinal ==
    lifecycle = "unmounted"
        => /\ fetchPromise = None
           /\ PendingFetches(fetches) = {}
           /\ hideTimer = None
           /\ timers = {}
           /\ textData = None

\* C12: a KeyHandler constructed without an argument has order 5000, one
\* constructed with order n has order n, and every onDown call on it has
\* returned false; a key-down step leaves the handler as it was.
C12_KeyHandlerOrderAndOnDown ==
    [][ /\ keyHandler'.constructed
            => /\ keyHandler'.argument = Absent => keyHandler'.order = 5000
               /\ keyHandler'.argument # Absent
                    => keyHandler'.order = keyHandler'.argument
        /\ keyDown' # keyDown
            => /\ keyDown'.result = FALSE
               /\ keyHandler' = keyHandler
               /\ UNCHANGED copyHandlerVars
      ]_vars

\* C12 witness: a handler constructed without an argument, order 5000, has
\* seen a key-down event and did not consume it.
C12_Witness ==
    /\ keyHandler.constructed
    /\ keyHandler.argument = Absent
    /\ keyHandler.order = 5000
    /\ keyDown.key = "Enter"
    /\ keyDown.result = FALSE

\* C13: whenever a hide timer is pending on a mounted handler, copyState is
\* DONE.
C13_TimerOnlyInDone ==
    (lifecycle = "mounted" /\ (hideTimer # None \/ timers # {}))
        => copyState = DONE

\* C14: the outcome of a clipboard write that was started for an earlier
\* operation than the one now supplied changes nothing of the handler: not
\* copyState, buttonState or the error, and it starts no hide timer.
C14_StaleWriteChangesNothing ==
    [][ \A w \in writes :
           (/\ w.cycle # cycle
            /\ lifecycle = "mounted"
            /\ copyOperation.present
            /\ ClipboardResolvedOf(w) \/ ClipboardRejectedOf(w))
             => UNCHANGED <<copyState, buttonState, error, isShown, hideTimer,
                            timers, textData, fetchPromise, fetches>>
      ]_vars

\* C15: whenever the clipboard write of the operation still supplied (one
\* without preset error) succeeds on a mounted handler, copyState is DONE
\* and the status message shown is "Copied to Clipboard!".
C15_SuccessShowsCopied ==
    [][ \A w \in writes :
           (/\ w.cycle = cycle
            /\ NoPresetError(copyOperation)
            /\ lifecycle = "mounted"
            /\ ClipboardResolvedOf(w))
             => /\ copyState' = DONE
                /\ statusMessageText' = Message("Copied to Clipboard!", Absent)
      ]_vars

\* C16: the cached text is either empty or the text fetched for the
\* operation now supplied, and every clipboard write carries the text
\* fetched for the operation that was supplied when the write started.
C16_CachedTextIsCurrent ==
    /\ textData # None => textData = cycle
    /\ \A w \in writes : w.text = w.cycle

\* C16 witness: during the second operation its own text is cached and a
\* click is writing it, while a write of the first operation is in flight.
C16_Witness ==
    /\ lifecycle = "mounted"
    /\ cycle = 2
    /\ textData = 2
    /\ \E w \in writes : w.cycle = 1 /\ w.text = 1
    /\ \E w \in writes : w.cycle = 2 /\ w.text = 2 /\ w.origin = "click"

\* C17: a cancel click in any state leaves no fetch in flight and the UI
\* hidden, and a hidden UI is shown again only by startCopy for a new
\* operation: no fetch outcome, clipboard outcome, click or timer shows it.
C17_CancelHidesUntilNewOperation ==
    [][ /\ CancelClick
            => /\ ~isShown'
               /\ fetchPromise' = None
               /\ PendingFetches(fetches') = {}
               /\ UNCHANGED <<copyState, buttonState, error, textData, writes,
                              hideTimer, timers, copyOperation, cycle>>
        /\ (~isShown /\ isShown') => (StartCopyStep /\ copyOperation'.present)
      ]_vars

\* C17 witness: the cancel click came while the clipboard write was in
\* flight; the write then failed and the UI is still hidden.
C17_Witness ==
    /\ lifecycle = "mounted"
    /\ copyOperation.present
    /\ ~isShown
    /\ copyState = CLICK_REQUIRED
    /\ textData = cycle
    /\ fetches = {}
    /\ writes = {}
    /\ timers = {}

\* C18: a background click hides the UI when copyState is DONE and changes
\* nothing else; in every other copyState it changes nothing at all.
C18_BackgroundClickOnlyInDone ==
    [][ BackgroundClick
          => /\ copyState = DONE => ~isShown'
             /\ copyState # DONE => isShown' = isShown
             /\ UNCHANGED <<lifecycle, copyOperation, cycle, error, copyState,
                            buttonState, rowCount, textData, hideTimer,
                            fetchPromise, fetches, writes, timers>>
      ]_vars

\* C18 witness: the UI of a DONE cycle was dismissed by a background click
\* while its hide timer is still pending.
C18_Witness ==
    /\ lifecycle = "mounted"
    /\ copyOperation.present
    /\ copyState = DONE
    /\ ~isShown
    /\ hideTimer # None
    /\ timers = {hideTimer}
    /\ ENABLED BackgroundClick

\* C19: when the operation changes to null, startCopy leaves no fetch in
\* flight, no hide timer and no cached text, hides the UI, starts no fetch
\* and no clipboard write, and leaves copyState, buttonState and the error.
C19_NullOperationStopsAndHides ==
    [][ (StartCopyStep /\ ~copyOperation'.present)
          => /\ fetchPromise' = None
             /\ PendingFetches(fetches') = {}
             /\ ~IssuedFetch
             /\ hideTimer' = None
             /\ timers' = {}
             /\ textData' = None
             /\ ~isShown'
             /\ writes' = writes
             /\ UNCHANGED <<copyState, buttonState, error, rowCount>>
      ]_vars

\* C19 witness: null replaced an operation that was DONE and shown with its
\* timer pending: hidden, no timer, the fetch history canceled or settled.
C19_Witness ==
    /\ lifecycle = "mounted"
    /\ ~copyOperation.present
    /\ cycle = 2
    /\ copyState = DONE
    /\ ~isShown
    /\ hideTimer = None
    /\ timers = {}
    /\ textData = None
    /\ fetchPromise = None

\* C20: buttonState agrees with copyState: FETCH_IN_PROGRESS in both
\* fetch-in-progress states, COPY in CONFIRMATION_REQUIRED, CLICK_TO_COPY in
\* CLICK_REQUIRED and RETRY in FETCH_ERROR.
C20_ButtonAgreesWithCopyState ==
    /\ copyState \in {FETCH_RANGES_IN_PROGRESS, FETCH_HEADER_IN_PROGRESS}
        => buttonState = FETCH_IN_PROGRESS
    /\ copyState = CONFIRMATION_REQUIRED => buttonState = COPY
    /\ copyState = CLICK_REQUIRED => buttonState = CLICK_TO_COPY
    /\ copyState = FETCH_ERROR => buttonState = RETRY

\* C20 witness: a stale clipboard failure moved a cycle that waited for
\* confirmation to CLICK_REQUIRED, and the button moved with it.
C20_Witness ==
    /\ lifecycle = "mounted"
    /\ LargeRanges(copyOperation)
    /\ copyState = CLICK_REQUIRED
    /\ buttonState = CLICK_TO_COPY
    /\ textData = None

====
